---- MODULE Spec2Model ----
(***************************************************************************)
(* csv-helper: a generic helper CsvHelper[T] that reads a csv buffer into  *)
(* rows of string cells and binds the data rows to instances of the struct *)
(* type T through the csv_column_name tags of T's fields (src/csv.go).     *)
(*                                                                         *)
(* Conventions of the model:                                               *)
(*  - Go's nil error is the string nil; a nil or empty slice is << >>.     *)
(*  - Go indices are 0-based, sequences here are 1-based: records[0] of    *)
(*    the source is records[1] here, column index j of the source is j+1.  *)
(*  - encoding/csv is the external row reader: a buffer is modelled by     *)
(*    what csv.NewReader(buffer).ReadAll() returns for it.                 *)
(*  - A Go panic is an outcome of a call (field panic of the result).      *)
(***************************************************************************)
EXTENDS Integers, Sequences, FiniteSets, TLC

\* Bounds of the model.
MaxFields == 3
MaxCols == 2
MaxDataRows == 1

VARIABLES T, handles, call

vars == <<T, handles, call>>

----------------------------------------------------------------------------
\* Errors.

nil == "nil"

ErrInvalidHeaderSize == "invalid header size"

ErrMissingRequiredTag == "missing required tag"

ErrDuplicatedTag == "duplicated tag"

ErrUninitializedRecords == "uninitialized records"

\* Errors of the row reader (encoding/csv).
ErrFieldCount == "wrong number of fields"

ErrQuote == "extraneous or missing quote in quoted-field"

ReadErrors == {ErrFieldCount, ErrQuote}

----------------------------------------------------------------------------
\* Strings.

Tags == {"", "a", "A", "b"}

HeaderCells == {"a", "A", "b"}

ToLower(s) == IF s = "A" THEN "a" ELSE s

\* strings.EqualFold: equality under case folding.
EqualFold(s, t) == ToLower(s) = ToLower(t)

----------------------------------------------------------------------------
\* The struct type T: its fields in declaration order, each with its name
\* and the value of its csv_column_name tag ("" when the tag is absent).

FieldName(i) == "Field" \o ToString(i)

ModelOf(tags) == [i \in 1..Len(tags) |-> [Name |-> FieldName(i), Tag |-> tags[i]]]

Models == {ModelOf(tags) : tags \in UNION {[1..n -> Tags] : n \in 1..MaxFields}}

NumField(model) == Len(model)

FieldNames(model) == {model[i].Name : i \in 1..Len(model)}

\* var model T: every (string) field at its zero value.
ZeroValue(model) == [n \in FieldNames(model) |-> ""]

----------------------------------------------------------------------------
\* What the row reader returns for a buffer: no rows and no error for an
\* empty buffer, no rows and an error for a malformed one, and otherwise
\* rows that all have the width of the first one (FieldsPerRecord = 0).

Cell(k, j) == "v" \o ToString(k) \o ToString(j)

DataRow(k, w) == [j \in 1..w |-> Cell(k, j)]

Table(header, n) == <<header>> \o [k \in 1..n |-> DataRow(k, Len(header))]

Tables ==
    {Table(header, n) : header \in UNION {[1..w -> HeaderCells] : w \in 1..MaxCols},
                        n \in 0..MaxDataRows}

Buffers ==
    {[records |-> << >>, err |-> nil]}
        \cup {[records |-> << >>, err |-> e] : e \in ReadErrors}
        \cup {[records |-> t, err |-> nil] : t \in Tables}

\* The buffers of chained reads: the fixtures of a caller that reads twice.
ChainBuffers ==
    {[records |-> << >>, err |-> nil]}
        \cup {[records |-> << >>, err |-> e] : e \in ReadErrors}
        \cup {[records |-> Table(<<"a">>, 0), err |-> nil],
              [records |-> Table(<<"b", "a">>, 1), err |-> nil]}

----------------------------------------------------------------------------
\* csvHelperImpl[T]: the state behind a handle.

csvHelperImpl == [records |-> << >>, err |-> nil]

New == csvHelperImpl

\* ReadAll has a value receiver: c is a copy of the receiver, the read is
\* stored in the copy and the copy is returned. self is the receiver as the
\* caller still sees it, ret the handle returned.
ReadAllAliased(c, buffer) ==
    LET d == [c EXCEPT !.records = buffer.records, !.err = buffer.err]
    IN  [self |-> d, ret |-> d]

ReadAllKeepsErr(c, buffer) ==
    [self |-> c,
     ret  |-> [c EXCEPT !.records = buffer.records,
                        !.err = IF c.err # nil THEN c.err ELSE buffer.err]]

ReadAll(c, buffer) ==
    [self |-> c,
     ret  |-> [c EXCEPT !.records = buffer.records, !.err = buffer.err]]

validateIntegrityLenFirst(c) ==
    IF Len(c.records) = 0 THEN ErrUninitializedRecords
    ELSE IF c.err # nil THEN c.err
    ELSE nil

validateIntegrity(c) ==
    IF c.err # nil THEN c.err
    ELSE IF Len(c.records) = 0 THEN ErrUninitializedRecords
    ELSE nil

\* The map tags of validateModelTags after the loop over fields 1..n.
TagsMap(model, n) ==
    [t \in {model[i].Tag : i \in 1..n} |->
        CHOOSE i \in 1..n : model[i].Tag = t /\ \A k \in 1..n : model[k].Tag = t => k <= i]

validateModelTagsDupFirst(model) ==
    IF Cardinality(DOMAIN TagsMap(model, NumField(model))) # NumField(model)
    THEN ErrDuplicatedTag
    ELSE IF \E i \in 1..NumField(model) : model[i].Tag = ""
    THEN ErrMissingRequiredTag
    ELSE nil

validateModelTags(model) ==
    IF \E i \in 1..NumField(model) : model[i].Tag = ""
    THEN ErrMissingRequiredTag
    ELSE IF Cardinality(DOMAIN TagsMap(model, NumField(model))) # NumField(model)
    THEN ErrDuplicatedTag
    ELSE nil

validate(model, c, SkipValidation) ==
    IF validateIntegrity(c) # nil THEN validateIntegrity(c)
    ELSE IF ~SkipValidation
    THEN IF validateModelTags(model) # nil THEN validateModelTags(model)
         ELSE IF Len(c.records[1]) # NumField(model) THEN ErrInvalidHeaderSize
         ELSE nil
    ELSE nil

\* The loops of mapIndexToField from field i on: every header column j that
\* equals field i's tag under case folding gets indexToFieldName[j] = name.
RECURSIVE mapLoop(_, _, _, _)
mapLoop(model, csvHeaders, i, indexToFieldName) ==
    IF i > NumField(model) THEN indexToFieldName
    ELSE LET hit == {j \in 1..Len(csvHeaders) : EqualFold(model[i].Tag, csvHeaders[j])}
         IN  mapLoop(model, csvHeaders, i + 1,
                     [j \in (DOMAIN indexToFieldName) \cup hit |->
                         IF j \in hit THEN model[i].Name ELSE indexToFieldName[j]])

mapIndexToField(model, csv) == mapLoop(model, csv[1], 1, << >>)

\* The inner loop of assign from cell j on: the field named by
\* indexToFieldName[j] ("" when the map has no entry) is set to the cell.
\* FieldByName of a name that is no field is the zero Value and SetString
\* on it panics.
RECURSIVE setCells(_, _, _, _)
setCells(inst, record, j, indexToFieldName) ==
    IF j > Len(record) THEN [panic |-> FALSE, inst |-> inst]
    ELSE LET modelField == IF j \in DOMAIN indexToFieldName
                           THEN indexToFieldName[j] ELSE ""
         IN  IF modelField \notin DOMAIN inst
             THEN [panic |-> TRUE, inst |-> inst]
             ELSE setCells([inst EXCEPT ![modelField] = record[j]], record, j + 1,
                           indexToFieldName)

assign(model, records, indexToFieldName) ==
    LET bound(k) == setCells(ZeroValue(model), records[k], 1, indexToFieldName)
    IN  IF \E k \in 2..Len(records) : bound(k).panic
        THEN [panic |-> TRUE, out |-> << >>, err |-> nil]
        ELSE [panic |-> FALSE,
              out   |-> [k \in 1..(Len(records) - 1) |-> bound(k + 1).inst],
              err   |-> nil]

----------------------------------------------------------------------------
\* The accessors. Each has a value receiver; self is the receiver as the
\* caller sees it after the call.

Validate(model, c) ==
    LET err == validate(model, c, FALSE)
    IN  [self |-> c, ok |-> (err = nil), err |-> err]

RecordsUnchecked(model, c) == [self |-> c, rows |-> c.records, err |-> c.err]

Records(model, c) ==
    LET err == validate(model, c, FALSE)
    IN  IF err # nil THEN [self |-> c, rows |-> << >>, err |-> err]
        ELSE [self |-> c, rows |-> c.records, err |-> c.err]

ErrorClears(model, c) ==
    LET err == validate(model, c, FALSE)
    IN  [self |-> [c EXCEPT !.err = nil], err |-> IF err # nil THEN err ELSE c.err]

Error(model, c) ==
    LET err == validate(model, c, FALSE)
    IN  [self |-> c, err |-> IF err # nil THEN err ELSE c.err]

Marshal(model, c, SkipValidation) ==
    LET err == validate(model, c, SkipValidation)
    IN  IF err # nil THEN [self |-> c, panic |-> FALSE, out |-> << >>, err |-> err]
        ELSE LET bound == assign(model, c.records, mapIndexToField(model, c.records))
             IN  [self |-> c, panic |-> bound.panic, out |-> bound.out, err |-> bound.err]

----------------------------------------------------------------------------
\* The caller. handles[1] is the handle ReadAll was last called on (at first
\* the handle from New), handles[2] the handle that call returned. call is
\* the last call made and what it returned.

NoCall ==
    [op |-> "New", h |-> 1, skip |-> FALSE, buffer |-> [records |-> << >>, err |-> nil],
     ok |-> FALSE, rows |-> << >>, out |-> << >>, err |-> nil, panic |-> FALSE]

Init ==
    /\ T \in Models
    /\ handles = <<New>>
    /\ call = NoCall

CallReadAll(i, buffer) ==
    LET r == ReadAll(handles[i], buffer)
    IN  /\ handles' = <<r.self, r.ret>>
        /\ call' = [NoCall EXCEPT !.op = "ReadAll", !.h = i, !.buffer = buffer]
        /\ UNCHANGED T

CallValidate(i) ==
    LET r == Validate(T, handles[i])
    IN  /\ handles' = [handles EXCEPT ![i] = r.self]
        /\ call' = [NoCall EXCEPT !.op = "Validate", !.h = i, !.ok = r.ok, !.err = r.err]
        /\ UNCHANGED T

CallRecords(i) ==
    LET r == Records(T, handles[i])
    IN  /\ handles' = [handles EXCEPT ![i] = r.self]
        /\ call' = [NoCall EXCEPT !.op = "Records", !.h = i, !.rows = r.rows, !.err = r.err]
        /\ UNCHANGED T

CallError(i) ==
    LET r == Error(T, handles[i])
    IN  /\ handles' = [handles EXCEPT ![i] = r.self]
        /\ call' = [NoCall EXCEPT !.op = "Error", !.h = i, !.err = r.err]
        /\ UNCHANGED T

CallMarshal(i, SkipValidation) ==
    LET r == Marshal(T, handles[i], SkipValidation)
    IN  /\ handles' = [handles EXCEPT ![i] = r.self]
        /\ call' = [NoCall EXCEPT !.op = "Marshal", !.h = i, !.skip = SkipValidation,
                                  !.out = r.out, !.err = r.err, !.panic = r.panic]
        /\ UNCHANGED T

\* helper := New[T](); got := helper.ReadAll(buffer)
FirstRead == \E buffer \in Buffers : Len(handles) = 1 /\ CallReadAll(1, buffer)

\* Any handle read again, as in helper.ReadAll(b1).ReadAll(b2).
ChainedRead == \E i \in DOMAIN handles : \E buffer \in ChainBuffers : CallReadAll(i, buffer)

DoValidate == \E i \in DOMAIN handles : CallValidate(i)

DoRecords == \E i \in DOMAIN handles : CallRecords(i)

DoError == \E i \in DOMAIN handles : CallError(i)

DoMarshal == \E i \in DOMAIN handles : \E SkipValidation \in BOOLEAN : CallMarshal(i, SkipValidation)

Next == FirstRead \/ DoValidate \/ DoRecords \/ DoError \/ DoMarshal

Spec == Init /\ [][Next]_vars

NextChain == ChainedRead \/ DoValidate \/ DoRecords \/ DoError \/ DoMarshal

SpecChain == Init /\ [][NextChain]_vars

----------------------------------------------------------------------------
\* Vocabulary of the properties.

Accessors == {"Validate", "Records", "Error", "Marshal"}

\* The handle the last call was made on.
Receiver == handles[call.h]

HasRows(c) == c.err = nil /\ Len(c.records) >= 1

\* The outcome of the full checks as the documentation orders them.
ExpectedErr(model, header) ==
    IF \E i \in 1..Len(model) : model[i].Tag = "" THEN ErrMissingRequiredTag
    ELSE IF \E i, k \in 1..Len(model) : i # k /\ model[i].Tag = model[k].Tag
    THEN ErrDuplicatedTag
    ELSE IF Len(header) # Len(model) THEN ErrInvalidHeaderSize
    ELSE nil

PassesFullValidation(model, c) ==
    HasRows(c) /\ ExpectedErr(model, c.records[1]) = nil

\* The header columns that match field i's tag, compared case-insensitively.
ColumnsOf(model, header, i) ==
    {j \in 1..Len(header) : EqualFold(model[i].Tag, header[j])}

Orders(n) == {p \in [1..n -> 1..n] : \A i, k \in 1..n : p[i] = p[k] => i = k}

\* The table with its columns permuted by p, header and data rows alike.
PermuteColumns(records, p) ==
    [k \in 1..Len(records) |-> [j \in 1..Len(records[k]) |-> records[k][p[j]]]]

\* The struct type with its field declarations reordered by q.
PermuteFields(model, q) == [i \in 1..Len(model) |-> model[q[i]]]

----------------------------------------------------------------------------
\* C1: on a handle with no rows and no stored error (fresh from New, or
\* returned by a ReadAll of an empty buffer) every accessor fails with
\* ErrUninitializedRecords: Validate gives (false, err), Records and Marshal
\* (SkipValidation true or false) give nothing with the error.
C1_UninitializedBeforeRead ==
    (call.op \in Accessors /\ Receiver = [records |-> << >>, err |-> nil])
        => /\ call.err = ErrUninitializedRecords
           /\ ~call.ok
           /\ call.rows = << >>
           /\ call.out = << >>
           /\ ~call.panic

C1_Witness ==
    /\ call.op = "Marshal" /\ call.skip /\ call.h = 2
    /\ handles[1] = New
    /\ handles[2] = [records |-> << >>, err |-> nil]
    /\ call.err = ErrUninitializedRecords

\* C2: when the handle's stored error is not nil, every accessor returns
\* exactly that error, whatever T is, with no rows and no instances.
C2_StoredErrorFirst ==
    (call.op \in Accessors /\ Receiver.err # nil)
        => /\ call.err = Receiver.err
           /\ ~call.ok
           /\ call.rows = << >>
           /\ call.out = << >>
           /\ ~call.panic

C2_Witness ==
    /\ call.op = "Records" /\ call.h = 2
    /\ Receiver.err = ErrQuote
    /\ \E i \in 1..Len(T) : T[i].Tag = ""
    /\ call.err = ErrQuote /\ call.rows = << >>

C4_BindsByHeader ==
    (/\ call.op = "Marshal"
     /\ PassesFullValidation(T, Receiver)
     /\ \A i \in 1..Len(T) : Cardinality(ColumnsOf(T, Receiver.records[1], i)) = 1)
        => /\ ~call.panic
           /\ call.err = nil
           /\ Len(call.out) = Len(Receiver.records) - 1
           /\ \A k \in 1..Len(call.out) : \A i \in 1..Len(T) :
                 call.out[k][T[i].Name] =
                     Receiver.records[k + 1]
                         [CHOOSE j \in ColumnsOf(T, Receiver.records[1], i) : TRUE]

\* C5: for every T and table that pass the full checks, Marshal with
\* SkipValidation=false returns without error exactly rowCount - 1
\* instances.
C5_OnePerDataRow ==
    (call.op = "Marshal" /\ ~call.skip /\ PassesFullValidation(T, Receiver))
        => /\ ~call.panic
           /\ call.err = nil
           /\ Len(call.out) = Len(Receiver.records) - 1

\* C6: for a valid T and a table whose header holds every declared tag,
\* permuting the columns of the header and of every data row alike gives
\* the same instances, and so does reordering the field declarations of T.
C6_ColumnOrderIndependent ==
    (/\ call.op = "Marshal" /\ ~call.skip
     /\ PassesFullValidation(T, Receiver)
     /\ \A i \in 1..Len(T) : ColumnsOf(T, Receiver.records[1], i) # {})
        => /\ \A p \in Orders(Len(Receiver.records[1])) :
                 LET r == Marshal(T, [Receiver EXCEPT
                                         !.records = PermuteColumns(Receiver.records, p)],
                                  FALSE)
                 IN  r.panic = call.panic /\ r.err = call.err /\ r.out = call.out
           /\ \A q \in Orders(Len(T)) :
                 LET r == Marshal(PermuteFields(T, q), Receiver, FALSE)
                 IN  r.panic = call.panic /\ r.err = call.err /\ r.out = call.out

\* C7: Marshal with SkipValidation=true on a read table whose header width
\* differs from the number of fields, or that has a column matching no tag,
\* returns without error one instance per data row; cells of unmapped
\* columns are ignored and fields without a column stay "".
C7_SkipValidationBinds ==
    (/\ call.op = "Marshal" /\ call.skip /\ HasRows(Receiver)
     /\ \/ Len(Receiver.records[1]) # Len(T)
        \/ \E j \in 1..Len(Receiver.records[1]) : \A i \in 1..Len(T) :
              j \notin ColumnsOf(T, Receiver.records[1], i))
        => /\ ~call.panic
           /\ call.err = nil
           /\ Len(call.out) = Len(Receiver.records) - 1
           /\ \A k \in 1..Len(call.out) : \A i \in 1..Len(T) :
                 ColumnsOf(T, Receiver.records[1], i) = {} => call.out[k][T[i].Name] = ""

\* C8: ReadAll is copy-on-write: the handle it is called on is left as it
\* was, so every accessor on it returns what it returned before, and the
\* handle returned holds the rows or the error of that read.
C8_CopyOnWrite ==
    [][call'.op = "ReadAll" =>
          /\ handles'[1] = handles[call'.h]
          /\ Validate(T, handles'[1]) = Validate(T, handles[call'.h])
          /\ Records(T, handles'[1]) = Records(T, handles[call'.h])
          /\ Error(T, handles'[1]) = Error(T, handles[call'.h])
          /\ \A s \in BOOLEAN :
                Marshal(T, handles'[1], s) = Marshal(T, handles[call'.h], s)
          /\ handles'[2].records = call'.buffer.records
          /\ handles'[2].err = call'.buffer.err]_vars

C8_Witness ==
    /\ call.op = "ReadAll" /\ call.h = 1
    /\ handles[1] = New
    /\ Error(T, handles[1]).err = ErrUninitializedRecords
    /\ Len(handles[2].records) = 2

\* C9: the stored error is sticky: an accessor call leaves every handle as
\* it was and, on a handle whose read stored error E, returns E, whichever
\* accessors were called before.
C9_StickyError ==
    [][call'.op \in Accessors =>
          /\ handles' = handles
          /\ handles[call'.h].err # nil => call'.err = handles[call'.h].err]_vars

C9_Witness ==
    /\ call.op = "Error" /\ call.h = 2
    /\ handles[2].err = ErrFieldCount
    /\ call.err = ErrFieldCount

\* C10: the handle returned by ReadAll holds what that read produced and
\* nothing of what the receiver held: a good read after a failed one gives
\* the new rows and no error, a failed read after a good one gives the new
\* error and no rows.
C10_ReadOverwrites ==
    [][call'.op = "ReadAll" =>
          /\ handles'[2] = [records |-> call'.buffer.records, err |-> call'.buffer.err]
          /\ (handles[call'.h].err # nil /\ call'.buffer.err = nil) =>
                /\ handles'[2].err = nil
                /\ Error(T, handles'[2]).err # handles[call'.h].err
          /\ call'.buffer.err # nil =>
                /\ Records(T, handles'[2]).rows = << >>
                /\ Records(T, handles'[2]).err = call'.buffer.err]_vars

C10_Witness ==
    /\ call.op = "ReadAll" /\ call.h = 2
    /\ handles[1].err = ErrFieldCount
    /\ handles[2].err = nil
    /\ Len(handles[2].records) = 2

\* C11: whenever the full checks pass, the match the header resolver finds
\* is unique: no header column matches the tags of two fields, no field is
\* matched by more than one header column, and the header-to-field map gives
\* each declared field exactly one column index, no entry being overwritten
\* by another field. Stated for the headers the resolver is written for,
\* those that hold every declared tag.
C11_UniqueMatch ==
    (/\ call.op = "Marshal" /\ ~call.skip
     /\ PassesFullValidation(T, Receiver)
     /\ \A i \in 1..Len(T) : ColumnsOf(T, Receiver.records[1], i) # {})
        => LET header == Receiver.records[1]
               indexToFieldName == mapIndexToField(T, Receiver.records)
           IN  /\ \A j \in 1..Len(header) :
                     Cardinality({i \in 1..Len(T) : j \in ColumnsOf(T, header, i)}) <= 1
               /\ \A i \in 1..Len(T) : Cardinality(ColumnsOf(T, header, i)) <= 1
               /\ \A i \in 1..Len(T) :
                     Cardinality({j \in DOMAIN indexToFieldName :
                                     indexToFieldName[j] = T[i].Name}) = 1

====
